---- MODULE Spec2Model ----
(***************************************************************************)
(* The session view of lance-ai (frontend/pages/session/[sessionId].tsx):  *)
(* the React component SessionPage with its status poller, expiry          *)
(* countdown and deletion handler, together with the browser's timer       *)
(* table, the requests in flight and the remote session record.            *)
(*                                                                         *)
(* A handler runs to completion on the event loop, so every action is one  *)
(* handler (or one continuation after an await) followed by the render it  *)
(* causes and the effects of that render.  A function created in a render  *)
(* reads the state of that render: the closure a timer or a request        *)
(* carries is the triple of state values fetchSessionStatus reads.         *)
(***************************************************************************)
EXTENDS Integers, FiniteSets, Sequences, Bags, TLC

\* ---- bounds of the model ----
MaxTimers == 2
MaxStatusReqs == 2
MaxPosts == 1
MaxDeleteReqs == 2
MaxNow == 1
MaxRedirects == 2
\* the longest answer the user types, apart from SampleTexts
MaxTextLen == 1
\* the number of questions of a pending question set
NumQuestions == 2

\* ---- constants of the program ----
FAST_POLL_MS == 1000
MEDIUM_POLL_MS == 2000
COUNTDOWN_MS == 1000
REDIRECT_DELAY_MS == 2000

VARIABLES
  \* React state of SessionPage
  sessionId, sessionStatus, loading, error, showChatModal, showArtifacts,
  artifactsAutoOpened, showDeleteModal, pollingInterval, countdownText,
  countdownInterval, deletionInProgress, autoDeleteAttempted, isSubmitting,
  \* refs of SessionPage
  deletionInProgressRef, autoDeleteAttemptedRef, countdownIntervalRef,
  pollingIntervalRef, componentMountedRef,
  \* React runtime: is the component attached, and what the effects captured
  viewMounted, effectStatus, effectPollingInterval, isDeleting,
  chatSubmitting,
  \* React state of ChatModal
  currentQuestionIndex, answers, currentAnswer,
  \* React state of DeleteModal
  confirmText, confirmCheck,
  \* browser and network
  timers, statusReqs, startReqs, answerReqs, deleteReqs, redirectTimers,
  notified, now,
  \* remote session record
  server,
  \* observations (history of what the view did)
  notifyCount, autoDeletesIssued, repeatedZeroCrossing, countdownRestarted,
  blockedInFlight, navigations, deleteOutcome, promptDismissed

vars == <<sessionId, sessionStatus, loading, error, showChatModal,
          showArtifacts, artifactsAutoOpened, showDeleteModal,
          pollingInterval, countdownText, countdownInterval,
          deletionInProgress, autoDeleteAttempted, isSubmitting,
          deletionInProgressRef, autoDeleteAttemptedRef,
          countdownIntervalRef, pollingIntervalRef, componentMountedRef,
          viewMounted, effectStatus, effectPollingInterval, isDeleting,
          chatSubmitting, currentQuestionIndex, answers, currentAnswer,
          confirmText, confirmCheck,
          timers, statusReqs, startReqs, answerReqs, deleteReqs,
          redirectTimers, notified, now, server, notifyCount,
          autoDeletesIssued, repeatedZeroCrossing, countdownRestarted,
          blockedInFlight, navigations, deleteOutcome, promptDismissed>>

\* ---- values ----
TerminalStatuses == {"completed", "requires_review", "error", "deleted"}
ActiveStatuses == {"processing", "waiting_for_input"}
SuccessStatuses == {"completed", "requires_review"}

\* sessionStatus before the first response (null)
NullStatus ==
  [status |-> "null", artifacts_ready |-> FALSE, artifacts_available |-> FALSE,
   pending_questions |-> FALSE, expires_at |-> 0]

\* the state a function created in a render reads
NoClosure ==
  [pollingInterval |-> 0, showChatModal |-> FALSE, artifactsAutoOpened |-> FALSE]

Min(S) == CHOOSE x \in S : \A y \in S : x <= y

\* ---- text: a string is the sequence of its characters ----
EmptyText == <<>>

\* the characters the user types
TextChars == {"[", "]"}

ShortTexts == UNION {[1..n -> TextChars] : n \in 0..MaxTextLen}

\* further answers: a blank one, and the JSON texts  []  [1]  {"a":1}
\* {"a":"a"}
SampleTexts ==
  {<<" ">>,
   <<"[", "]">>,
   <<"[", "1", "]">>,
   <<"{", "\"", "a", "\"", ":", "1", "}">>,
   <<"{", "\"", "a", "\"", ":", "\"", "a", "\"", "}">>}

Texts == ShortTexts \cup SampleTexts

Inc2(n) == IF n < 2 THEN n + 1 ELSE 2

\* how the DELETE request settled in the last step ended: the answer, the
\* notification shown, whether router.push was called, and whether the view
\* was still attached; NoOutcome after every other step
NoOutcome ==
  [outcome |-> "none", toast |-> "none", pushed |-> FALSE, attached |-> FALSE]

\* ---- the world as one record, so that handlers compose like code ----
World ==
  [sessionId |-> sessionId, sessionStatus |-> sessionStatus,
   loading |-> loading, error |-> error, showChatModal |-> showChatModal,
   showArtifacts |-> showArtifacts,
   artifactsAutoOpened |-> artifactsAutoOpened,
   showDeleteModal |-> showDeleteModal, pollingInterval |-> pollingInterval,
   countdownText |-> countdownText, countdownInterval |-> countdownInterval,
   deletionInProgress |-> deletionInProgress,
   autoDeleteAttempted |-> autoDeleteAttempted, isSubmitting |-> isSubmitting,
   deletionInProgressRef |-> deletionInProgressRef,
   autoDeleteAttemptedRef |-> autoDeleteAttemptedRef,
   countdownIntervalRef |-> countdownIntervalRef,
   pollingIntervalRef |-> pollingIntervalRef,
   componentMountedRef |-> componentMountedRef,
   viewMounted |-> viewMounted, effectStatus |-> effectStatus,
   effectPollingInterval |-> effectPollingInterval, isDeleting |-> isDeleting,
   chatSubmitting |-> chatSubmitting,
   currentQuestionIndex |-> currentQuestionIndex, answers |-> answers,
   currentAnswer |-> currentAnswer,
   confirmText |-> confirmText, confirmCheck |-> confirmCheck,
   timers |-> timers, statusReqs |-> statusReqs, startReqs |-> startReqs,
   answerReqs |-> answerReqs, deleteReqs |-> deleteReqs,
   redirectTimers |-> redirectTimers, notified |-> notified, now |-> now,
   server |-> server, notifyCount |-> notifyCount,
   autoDeletesIssued |-> autoDeletesIssued,
   repeatedZeroCrossing |-> repeatedZeroCrossing,
   countdownRestarted |-> countdownRestarted,
   blockedInFlight |-> blockedInFlight, navigations |-> navigations,
   deleteOutcome |-> NoOutcome, promptDismissed |-> promptDismissed,
   overflow |-> FALSE, ret |-> 0, statusReplaced |-> FALSE]

Apply(w) ==
  /\ ~w.overflow
  /\ sessionId' = w.sessionId
  /\ sessionStatus' = w.sessionStatus
  /\ loading' = w.loading
  /\ error' = w.error
  /\ showChatModal' = w.showChatModal
  /\ showArtifacts' = w.showArtifacts
  /\ artifactsAutoOpened' = w.artifactsAutoOpened
  /\ showDeleteModal' = w.showDeleteModal
  /\ pollingInterval' = w.pollingInterval
  /\ countdownText' = w.countdownText
  /\ countdownInterval' = w.countdownInterval
  /\ deletionInProgress' = w.deletionInProgress
  /\ autoDeleteAttempted' = w.autoDeleteAttempted
  /\ isSubmitting' = w.isSubmitting
  /\ deletionInProgressRef' = w.deletionInProgressRef
  /\ autoDeleteAttemptedRef' = w.autoDeleteAttemptedRef
  /\ countdownIntervalRef' = w.countdownIntervalRef
  /\ pollingIntervalRef' = w.pollingIntervalRef
  /\ componentMountedRef' = w.componentMountedRef
  /\ viewMounted' = w.viewMounted
  /\ effectStatus' = w.effectStatus
  /\ effectPollingInterval' = w.effectPollingInterval
  /\ isDeleting' = w.isDeleting
  /\ chatSubmitting' = w.chatSubmitting
  /\ currentQuestionIndex' = w.currentQuestionIndex
  /\ answers' = w.answers
  /\ currentAnswer' = w.currentAnswer
  /\ confirmText' = w.confirmText
  /\ confirmCheck' = w.confirmCheck
  /\ timers' = w.timers
  /\ statusReqs' = w.statusReqs
  /\ startReqs' = w.startReqs
  /\ answerReqs' = w.answerReqs
  /\ deleteReqs' = w.deleteReqs
  /\ redirectTimers' = w.redirectTimers
  /\ notified' = w.notified
  /\ now' = w.now
  /\ server' = w.server
  /\ notifyCount' = w.notifyCount
  /\ autoDeletesIssued' = w.autoDeletesIssued
  /\ repeatedZeroCrossing' = w.repeatedZeroCrossing
  /\ countdownRestarted' = w.countdownRestarted
  /\ blockedInFlight' = w.blockedInFlight
  /\ navigations' = w.navigations
  /\ deleteOutcome' = w.deleteOutcome
  /\ promptDismissed' = w.promptDismissed

\* a state setter of a component that is no longer attached does nothing;
\* statusReplaced records that sessionStatus is a new object in the render to
\* come, whatever its value
SetState(w, field, value) ==
  IF w.viewMounted
  THEN [w EXCEPT ![field] = value,
                 !.statusReplaced = @ \/ field = "sessionStatus"]
  ELSE w

\* the closure of the functions created by the current render
CurrentClosure(w) ==
  [pollingInterval |-> w.pollingInterval, showChatModal |-> w.showChatModal,
   artifactsAutoOpened |-> w.artifactsAutoOpened]

\* ---- the browser's interval timers ----
\* Timer handles are opaque and the browser never hands one out twice.  A
\* handle whose timer has been cleared can only be tested for null and passed
\* to clearInterval, which then does nothing.  So, once a handler has run,
\* such handles are all represented by DeadHandle and the active timers are
\* numbered 1, 2, ... in the order of their creation; while a handler runs, a
\* cleared timer keeps its handle (kind "cleared").
DeadHandle == -1

UsedIds(w) == {t.id : t \in w.timers}

ActiveIds(w) == {t.id : t \in {u \in w.timers : u.kind # "cleared"}}

Live(w, id) ==
  IF id = 0 THEN 0
  ELSE IF id \in ActiveIds(w)
  THEN Cardinality({j \in ActiveIds(w) : j <= id})
  ELSE DeadHandle

LiveClosure(w, cl) == [cl EXCEPT !.pollingInterval = Live(w, @)]

\* a request in flight holds either a closure (POST) or a closure with the
\* response to come (GET)
LiveItem(w, r) ==
  IF "cl" \in DOMAIN r THEN [r EXCEPT !.cl = LiveClosure(w, @)]
  ELSE LiveClosure(w, r)

LiveBag(w, B) ==
  LET S == BagToSet(B)
      T == {LiveItem(w, r) : r \in S}
  IN  [x \in T |-> LET P == {r \in S : LiveItem(w, r) = x}
                        sum[Q \in SUBSET P] ==
                          IF Q = {} THEN 0
                          ELSE LET r == CHOOSE r \in Q : TRUE
                               IN  B[r] + sum[Q \ {r}]
                    IN  sum[P]]

Normalise(w) ==
      [w EXCEPT !.pollingInterval = Live(w, @),
                !.countdownInterval = Live(w, @),
                !.pollingIntervalRef = Live(w, @),
                !.countdownIntervalRef = Live(w, @),
                !.effectPollingInterval = Live(w, @),
                !.timers = {[t EXCEPT !.id = Live(w, @),
                                      !.cl = LiveClosure(w, @)] :
                              t \in {u \in @ : u.kind # "cleared"}},
                !.statusReqs = LiveBag(w, @),
                !.startReqs = LiveBag(w, @),
                !.answerReqs = LiveBag(w, @)]

FreeIds(w) == (1..(Cardinality(UsedIds(w)) + 1)) \ UsedIds(w)

\* setInterval: the handle is left in w.ret
setInterval(w, kind, period, cl, expiresAt) ==
  IF Cardinality(ActiveIds(w)) >= MaxTimers
  THEN [w EXCEPT !.overflow = TRUE, !.ret = 0]
  ELSE LET id == Min(FreeIds(w))
       IN  [w EXCEPT !.timers = @ \cup {[id |-> id, kind |-> kind,
                                          period |-> period, cl |-> cl,
                                          expiresAt |-> expiresAt]},
                     !.ret = id]

clearInterval(w, id) ==
  [w EXCEPT !.timers = {IF t.id = id THEN [t EXCEPT !.kind = "cleared"] ELSE t :
                          t \in @}]

PollTimers == {t \in timers : t.kind = "poll"}
CountdownTimers == {t \in timers : t.kind = "countdown"}
\* ---- the countdown text (updateTimer, lines 343-353) ----
ExpiredText == [kind |-> "expired", h |-> 0, m |-> 0, s |-> 0]
NoText == [kind |-> "none", h |-> 0, m |-> 0, s |-> 0]

\* the countdown text with the minutes and seconds not reduced modulo the
\* hour and the minute
CountdownText_Unreduced(timeLeft) ==
  LET hours == timeLeft \div (1000 * 60 * 60)
      minutes == timeLeft \div (1000 * 60)
      seconds == timeLeft \div 1000
  IN  IF hours > 0 THEN [kind |-> "hms", h |-> hours, m |-> minutes, s |-> seconds]
      ELSE IF minutes > 0 THEN [kind |-> "ms", h |-> 0, m |-> minutes, s |-> seconds]
      ELSE [kind |-> "s", h |-> 0, m |-> 0, s |-> seconds]

CountdownText(timeLeft) ==
  LET hours == timeLeft \div (1000 * 60 * 60)
      minutes == (timeLeft % (1000 * 60 * 60)) \div (1000 * 60)
      seconds == (timeLeft % (1000 * 60)) \div 1000
  IN  IF hours > 0 THEN [kind |-> "hms", h |-> hours, m |-> minutes, s |-> seconds]
      ELSE IF minutes > 0 THEN [kind |-> "ms", h |-> 0, m |-> minutes, s |-> seconds]
      ELSE [kind |-> "s", h |-> 0, m |-> 0, s |-> seconds]

\* handleDeleteSession without the test of deletionInProgressRef at its entry
handleDeleteSession_NoGuard(w, via) ==
  IF ~w.sessionId
  THEN w
  ELSE LET w1 == SetState([w EXCEPT !.deletionInProgressRef = TRUE],
                          "deletionInProgress", TRUE)
           w2 == IF w1.pollingIntervalRef # 0
                 THEN SetState([clearInterval(w1, w1.pollingIntervalRef)
                                  EXCEPT !.pollingIntervalRef = 0],
                               "pollingInterval", 0)
                 ELSE w1
           w3 == IF w2.countdownIntervalRef # 0
                 THEN SetState([clearInterval(w2, w2.countdownIntervalRef)
                                  EXCEPT !.countdownIntervalRef = 0],
                               "countdownInterval", 0)
                 ELSE w2
       IN  [w3 EXCEPT !.deleteReqs = @ (+) SetToBag({via}),
                      !.autoDeletesIssued = IF via = "auto" THEN Inc2(@) ELSE @,
                      !.overflow = @ \/ (BagCardinality(w3.deleteReqs) >= MaxDeleteReqs)]

\* ---- handleDeleteSession up to its await (lines 240-260) ----
\* via names the caller ("manual" or "auto"); the code has no such parameter,
\* it only labels the request for the observations.
handleDeleteSession(w, via) ==
  IF ~w.sessionId \/ w.deletionInProgressRef
  THEN [w EXCEPT !.blockedInFlight = @ \/ (BagCardinality(w.deleteReqs) > 0)]
  ELSE LET w1 == SetState([w EXCEPT !.deletionInProgressRef = TRUE],
                          "deletionInProgress", TRUE)
           w2 == IF w1.pollingIntervalRef # 0
                 THEN SetState([clearInterval(w1, w1.pollingIntervalRef)
                                  EXCEPT !.pollingIntervalRef = 0],
                               "pollingInterval", 0)
                 ELSE w1
           w3 == IF w2.countdownIntervalRef # 0
                 THEN SetState([clearInterval(w2, w2.countdownIntervalRef)
                                  EXCEPT !.countdownIntervalRef = 0],
                               "countdownInterval", 0)
                 ELSE w2
       IN  [w3 EXCEPT !.deleteReqs = @ (+) SetToBag({via}),
                      !.autoDeletesIssued = IF via = "auto" THEN Inc2(@) ELSE @,
                      !.overflow = @ \/ (BagCardinality(w3.deleteReqs) >= MaxDeleteReqs)]

\* updateTimer that does not consult componentMountedRef
updateTimer_NoMountedCheck(w, expiresAt) ==
  LET timeLeft == expiresAt - w.now
  IN  IF timeLeft <= 0
      THEN LET w1 == SetState([w EXCEPT !.repeatedZeroCrossing =
                                          @ \/ w.autoDeleteAttemptedRef],
                              "countdownText", ExpiredText)
           IN  IF ~w1.deletionInProgressRef /\ ~w1.autoDeleteAttemptedRef
               THEN LET w2 == [w1 EXCEPT !.deletionInProgressRef = TRUE,
                                         !.autoDeleteAttemptedRef = TRUE]
                        w3 == SetState(SetState(w2, "deletionInProgress", TRUE),
                                       "autoDeleteAttempted", TRUE)
                        w4 == IF w3.countdownIntervalRef # 0
                              THEN SetState([clearInterval(w3, w3.countdownIntervalRef)
                                               EXCEPT !.countdownIntervalRef = 0],
                                            "countdownInterval", 0)
                              ELSE w3
                    IN  handleDeleteSession(w4, "auto")
               ELSE [w1 EXCEPT !.blockedInFlight =
                                  @ \/ (BagCardinality(w1.deleteReqs) > 0)]
      ELSE SetState(w, "countdownText", CountdownText(timeLeft))

\* updateTimer leaving the guard to handleDeleteSession: it neither sets
\* deletionInProgressRef itself nor records the attempt
updateTimer_NoAttemptRecord(w, expiresAt) ==
  LET timeLeft == expiresAt - w.now
  IN  IF timeLeft <= 0
      THEN LET w1 == SetState([w EXCEPT !.repeatedZeroCrossing =
                                          @ \/ w.autoDeleteAttemptedRef],
                              "countdownText", ExpiredText)
           IN  IF ~w1.deletionInProgressRef /\ w1.componentMountedRef
               THEN LET w4 == IF w1.countdownIntervalRef # 0
                              THEN SetState([clearInterval(w1, w1.countdownIntervalRef)
                                               EXCEPT !.countdownIntervalRef = 0],
                                            "countdownInterval", 0)
                              ELSE w1
                    IN  handleDeleteSession(w4, "auto")
               ELSE [w1 EXCEPT !.blockedInFlight =
                                  @ \/ (BagCardinality(w1.deleteReqs) > 0)]
      ELSE SetState(w, "countdownText", CountdownText(timeLeft))

\* ---- updateTimer, the countdown tick (lines 305-354) ----
\* now and expires_at are instants in milliseconds (getTime)
updateTimer(w, expiresAt) ==
  LET timeLeft == expiresAt - w.now
  IN  IF timeLeft <= 0
      THEN LET w1 == SetState([w EXCEPT !.repeatedZeroCrossing =
                                          @ \/ w.autoDeleteAttemptedRef],
                              "countdownText", ExpiredText)
           IN  IF ~w1.deletionInProgressRef /\ ~w1.autoDeleteAttemptedRef
                    /\ w1.componentMountedRef
               THEN LET w2 == [w1 EXCEPT !.deletionInProgressRef = TRUE,
                                         !.autoDeleteAttemptedRef = TRUE]
                        w3 == SetState(SetState(w2, "deletionInProgress", TRUE),
                                       "autoDeleteAttempted", TRUE)
                        w4 == IF w3.countdownIntervalRef # 0
                              THEN SetState([clearInterval(w3, w3.countdownIntervalRef)
                                               EXCEPT !.countdownIntervalRef = 0],
                                            "countdownInterval", 0)
                              ELSE w3
                    IN  handleDeleteSession(w4, "auto")
               ELSE [w1 EXCEPT !.blockedInFlight =
                                  @ \/ (BagCardinality(w1.deleteReqs) > 0)]
      ELSE SetState(w, "countdownText", CountdownText(timeLeft))

\* updateCountdown that does not cancel the countdown it started before
updateCountdown_NoClear(w, expiresAt) ==
  LET w2 == updateTimer(w, expiresAt)
      w3 == setInterval(w2, "countdown", COUNTDOWN_MS, NoClosure, expiresAt)
      w4 == SetState([w3 EXCEPT !.countdownIntervalRef = w3.ret],
                     "countdownInterval", w3.ret)
  IN  [w4 EXCEPT !.countdownRestarted = @ \/ (w.countdownIntervalRef # 0)]

\* ---- updateCountdown (lines 297-367) ----
updateCountdown(w, expiresAt) ==
  LET w1 == IF w.countdownIntervalRef # 0
            THEN SetState([clearInterval(w, w.countdownIntervalRef)
                             EXCEPT !.countdownIntervalRef = 0],
                          "countdownInterval", 0)
            ELSE w
      w2 == updateTimer(w1, expiresAt)
      w3 == setInterval(w2, "countdown", COUNTDOWN_MS, NoClosure, expiresAt)
      w4 == SetState([w3 EXCEPT !.countdownIntervalRef = w3.ret],
                     "countdownInterval", w3.ret)
  IN  [w4 EXCEPT !.countdownRestarted = @ \/ (w.countdownIntervalRef # 0)]

IsReady(status) == status.status \in SuccessStatuses /\ status.artifacts_ready

\* fetchSessionStatus that relies on artifactsAutoOpened alone and does not
\* consult localStorage before the completion toast
fetchSucceeded_NoStorageCheck(w, cl, status) ==
  LET w1 == SetState(SetState(SetState(w, "sessionStatus", status),
                              "loading", FALSE), "error", "none")
      w2 == IF status.status \in TerminalStatuses /\ cl.pollingInterval # 0
            THEN SetState(clearInterval(w1, cl.pollingInterval),
                          "pollingInterval", 0)
            ELSE w1
      w3 == IF status.status = "waiting_for_input" /\ status.pending_questions
                 /\ ~cl.showChatModal
            THEN SetState(w2, "showChatModal", TRUE)
            ELSE w2
      w5 == IF IsReady(status) /\ status.artifacts_available
                 /\ ~cl.artifactsAutoOpened
            THEN LET a == SetState(SetState(w3, "showArtifacts", TRUE),
                                   "artifactsAutoOpened", TRUE)
                     b == [a EXCEPT !.notifyCount = Inc2(@), !.notified = TRUE]
                 IN  updateCountdown(b, status.expires_at)
            ELSE IF IsReady(status) /\ cl.artifactsAutoOpened
            THEN updateCountdown(w3, status.expires_at)
            ELSE w3
  IN  SetState(w5, "loading", FALSE)

\* ---- fetchSessionStatus after its await (lines 87-161) ----
fetchSucceeded(w, cl, status) ==
  LET w1 == SetState(SetState(SetState(w, "sessionStatus", status),
                              "loading", FALSE), "error", "none")
      w2 == IF status.status \in TerminalStatuses /\ cl.pollingInterval # 0
            THEN SetState(clearInterval(w1, cl.pollingInterval),
                          "pollingInterval", 0)
            ELSE w1
      w3 == IF status.status = "waiting_for_input" /\ status.pending_questions
                 /\ ~cl.showChatModal
            THEN SetState(w2, "showChatModal", TRUE)
            ELSE w2
      w5 == IF IsReady(status) /\ status.artifacts_available
                 /\ ~cl.artifactsAutoOpened
            THEN LET a == SetState(SetState(w3, "showArtifacts", TRUE),
                                   "artifactsAutoOpened", TRUE)
                     b == IF ~a.notified
                          THEN [a EXCEPT !.notifyCount = Inc2(@),
                                         !.notified = TRUE]
                          ELSE a
                 IN  updateCountdown(b, status.expires_at)
            ELSE IF IsReady(status) /\ cl.artifactsAutoOpened
            THEN updateCountdown(w3, status.expires_at)
            ELSE w3
  IN  SetState(w5, "loading", FALSE)

fetchFailed(w, cl, code) ==
  LET stop(x) == IF cl.pollingInterval # 0
                 THEN SetState(clearInterval(x, cl.pollingInterval),
                               "pollingInterval", 0)
                 ELSE x
      w1 == IF code = 404
            THEN [stop(SetState(w, "error", "Session not found or has expired"))
                    EXCEPT !.redirectTimers =
                              IF @ < MaxRedirects THEN @ + 1 ELSE @]
            ELSE IF code = 500
            THEN SetState(w, "error", "Server error occurred")
            ELSE SetState(w, "error", "Failed to connect to server")
  IN  SetState(stop(w1), "loading", FALSE)

\* ---- which layout the component returns (lines 441-478) ----
MainLayout(w) ==
  w.viewMounted /\ ~w.loading /\ w.error = "none"
    /\ w.sessionStatus.status # "null"

\* ---- the polling effect, deps [sessionStatus?.status] (lines 404-439) ----
\* x is the pollingInterval of the render the effect runs in; the effect's
\* timer callback and its cleanup read that render's state.
PollingEffectCleanup(w) ==
  LET c1 == IF w.pollingIntervalRef # 0
            THEN [clearInterval(w, w.pollingIntervalRef)
                    EXCEPT !.pollingIntervalRef = 0]
            ELSE w
  IN  IF w.effectPollingInterval # 0
      THEN SetState(clearInterval(c1, w.effectPollingInterval),
                    "pollingInterval", 0)
      ELSE c1

PollingEffect(w, x, cl) ==
  LET st == w.sessionStatus.status
  IN  IF st \in ActiveStatuses
      THEN LET t == setInterval(w, "poll", FAST_POLL_MS, cl, 0)
           IN  SetState([t EXCEPT !.pollingIntervalRef = t.ret],
                        "pollingInterval", t.ret)
      ELSE IF st = "uploading"
      THEN LET t == setInterval(w, "poll", MEDIUM_POLL_MS, cl, 0)
           IN  SetState([t EXCEPT !.pollingIntervalRef = t.ret],
                        "pollingInterval", t.ret)
      ELSE IF st \in TerminalStatuses
      THEN LET d1 == IF w.pollingIntervalRef # 0
                     THEN [clearInterval(w, w.pollingIntervalRef)
                             EXCEPT !.pollingIntervalRef = 0]
                     ELSE w
           IN  IF x # 0
               THEN SetState(clearInterval(d1, x), "pollingInterval", 0)
               ELSE d1
      ELSE w

\* ---- JSON.parse (ECMA-404) on the characters that occur in the model ----
\* A parsed value is a record that carries its type.  No text of the model
\* holds a backslash, a sign, a fraction or an exponent, so a string has no
\* escapes and a number is a run of digits.
Whitespace == {" ", "\n"}

Digits == {"0", "1", "2", "3", "4", "5", "6", "7", "8", "9"}

CharAt(s, i) == IF i >= 1 /\ i <= Len(s) THEN s[i] ELSE "EOF"

SkipWs(s, i) ==
  CHOOSE j \in i..(Len(s) + 1) :
    /\ \A k \in i..(j - 1) : s[k] \in Whitespace
    /\ CharAt(s, j) \notin Whitespace

StartsWith(s, i, word) ==
  /\ i + Len(word) - 1 <= Len(s)
  /\ SubSeq(s, i, i + Len(word) - 1) = word

ParseFail == [ok |-> FALSE, pos |-> 0, val |-> [type |-> "undefined"]]

Parsed(pos, val) == [ok |-> TRUE, pos |-> pos, val |-> val]

\* s[i] is the opening quote
ParseString(s, i) ==
  LET ends == {k \in (i + 1)..Len(s) : s[k] = "\""}
  IN  IF ends = {} THEN ParseFail
      ELSE LET j == Min(ends)
           IN  IF \E k \in (i + 1)..(j - 1) : s[k] = "\n" THEN ParseFail
               ELSE Parsed(j + 1, [type |-> "string",
                                   text |-> SubSeq(s, i + 1, j - 1)])

\* s[i] is a digit; a number that starts with 0 ends there
ParseNumber(s, i) ==
  LET j == CHOOSE j \in (i + 1)..(Len(s) + 1) :
             /\ \A k \in i..(j - 1) : s[k] \in Digits
             /\ CharAt(s, j) \notin Digits
      e == IF s[i] = "0" THEN i + 1 ELSE j
  IN  Parsed(e, [type |-> "number", text |-> SubSeq(s, i, e - 1)])

RECURSIVE ParseValue(_, _), ParseElements(_, _, _), ParseMembers(_, _, _)

ParseValue(s, i0) ==
  LET i == SkipWs(s, i0)
      c == CharAt(s, i)
  IN  IF c = "{"
      THEN LET j == SkipWs(s, i + 1)
           IN  IF CharAt(s, j) = "}"
               THEN Parsed(j + 1, [type |-> "object", members |-> <<>>])
               ELSE ParseMembers(s, j, <<>>)
      ELSE IF c = "["
      THEN LET j == SkipWs(s, i + 1)
           IN  IF CharAt(s, j) = "]"
               THEN Parsed(j + 1, [type |-> "array", items |-> <<>>])
               ELSE ParseElements(s, j, <<>>)
      ELSE IF c = "\"" THEN ParseString(s, i)
      ELSE IF c \in Digits THEN ParseNumber(s, i)
      ELSE IF StartsWith(s, i, <<"n", "u", "l", "l">>)
      THEN Parsed(i + 4, [type |-> "null"])
      ELSE IF StartsWith(s, i, <<"t", "r", "u", "e">>)
      THEN Parsed(i + 4, [type |-> "boolean"])
      ELSE IF StartsWith(s, i, <<"f", "a", "l", "s", "e">>)
      THEN Parsed(i + 5, [type |-> "boolean"])
      ELSE ParseFail

\* the elements of an array from position i on; acc holds the earlier ones
ParseElements(s, i, acc) ==
  LET v == ParseValue(s, i)
  IN  IF ~v.ok THEN ParseFail
      ELSE LET j == SkipWs(s, v.pos)
               items == Append(acc, v.val)
           IN  IF CharAt(s, j) = "," THEN ParseElements(s, j + 1, items)
               ELSE IF CharAt(s, j) = "]"
               THEN Parsed(j + 1, [type |-> "array", items |-> items])
               ELSE ParseFail

\* the members of an object; position i holds the quote of the next key
ParseMembers(s, i, acc) ==
  IF CharAt(s, i) # "\"" THEN ParseFail
  ELSE LET k == ParseString(s, i)
       IN  IF ~k.ok THEN ParseFail
           ELSE LET j == SkipWs(s, k.pos)
                IN  IF CharAt(s, j) # ":" THEN ParseFail
                    ELSE LET v == ParseValue(s, j + 1)
                         IN  IF ~v.ok THEN ParseFail
                             ELSE LET j2 == SkipWs(s, v.pos)
                                      members ==
                                        Append(acc, <<k.val.text, v.val>>)
                                  IN  IF CharAt(s, j2) = ","
                                      THEN ParseMembers(s, SkipWs(s, j2 + 1),
                                                        members)
                                      ELSE IF CharAt(s, j2) = "}"
                                      THEN Parsed(j2 + 1,
                                                  [type |-> "object",
                                                   members |-> members])
                                      ELSE ParseFail

\* JSON.parse throws (ok = FALSE) unless the whole text is one value
JSONParse(s) ==
  LET r == ParseValue(s, 1)
  IN  IF r.ok /\ SkipWs(s, r.pos) = Len(s) + 1 THEN r ELSE ParseFail

\* ---- handleChatResponse up to its await: the answers sent (lines 187-201) ----
GeneralResponseKey ==
  <<"g", "e", "n", "e", "r", "a", "l", "_",
    "r", "e", "s", "p", "o", "n", "s", "e">>

ParseAnswers(response) ==
  LET parsed == JSONParse(response)
  IN  IF parsed.ok /\ parsed.val.type \in {"object", "array"}
      THEN parsed.val
      ELSE [type |-> "object",
            members |-> << <<GeneralResponseKey,
                             [type |-> "string", text |-> response]>> >>]

\* ---- ChatModal (components/ChatModal.tsx) ----
\* the text of a question; the service words it
QuestionText(i) == <<"q">>

DigitChar(d) == <<"0", "1", "2", "3", "4", "5", "6", "7", "8", "9">>[d + 1]

RECURSIVE Decimal(_)
Decimal(n) ==
  IF n < 10 THEN <<DigitChar(n)>>
  ELSE Decimal(n \div 10) \o <<DigitChar(n % 10)>>

\* useState initial values (lines 18-21)
ChatModalInitial(w) ==
  [w EXCEPT !.currentQuestionIndex = 0, !.answers = <<>>,
            !.currentAnswer = EmptyText, !.chatSubmitting = FALSE]

\* the effect with deps [isOpen, questions] (lines 23-29)
ChatModalEffect(w) ==
  IF w.showChatModal /\ w.sessionStatus.pending_questions
  THEN [w EXCEPT !.currentQuestionIndex = 0,
                 !.answers = [i \in 1..NumQuestions |-> EmptyText],
                 !.currentAnswer = EmptyText]
  ELSE w

isLastQuestion(w) == w.currentQuestionIndex = NumQuestions - 1

isFirstQuestion(w) == w.currentQuestionIndex = 0

\* Next and Submit enabled whatever has been typed
canProceed_Always(w) ==
  TRUE

\* currentAnswer.trim().length > 0
canProceed(w) ==
  \E k \in 1..Len(w.currentAnswer) : w.currentAnswer[k] \notin Whitespace

\* newAnswers of the three handlers; the array index is 0-based in the code
NewAnswers(w) ==
  [w.answers EXCEPT ![w.currentQuestionIndex + 1] = w.currentAnswer]

handleNext(w) ==
  LET newAnswers == NewAnswers(w)
      i == w.currentQuestionIndex
  IN  IF i < NumQuestions - 1
      THEN [w EXCEPT !.answers = newAnswers, !.currentQuestionIndex = i + 1,
                     !.currentAnswer = newAnswers[i + 2]]
      ELSE [w EXCEPT !.answers = newAnswers]

\* handlePrevious that leaves without storing the text being typed
handlePrevious_NoStore(w) ==
  LET i == w.currentQuestionIndex
  IN  [w EXCEPT !.currentQuestionIndex = i - 1,
                !.currentAnswer = w.answers[i]]

handlePrevious(w) ==
  LET newAnswers == NewAnswers(w)
      i == w.currentQuestionIndex
  IN  [w EXCEPT !.answers = newAnswers, !.currentQuestionIndex = i - 1,
                !.currentAnswer = newAnswers[i]]

\* combinedAnswer of handleSubmit (lines 60-62)
RECURSIVE CombinedUpTo(_, _)
CombinedUpTo(newAnswers, n) ==
  LET entry == <<"Q">> \o Decimal(n) \o <<":", " ">> \o QuestionText(n)
                 \o <<"\n", "A">> \o Decimal(n) \o <<":", " ">>
                 \o newAnswers[n]
  IN  IF n = 0 THEN <<>>
      ELSE IF n = 1 THEN entry
      ELSE CombinedUpTo(newAnswers, n - 1) \o <<"\n", "\n">> \o entry

\* handleSubmit sending the last answer as it was typed
CombinedAnswer_Raw(newAnswers) ==
  newAnswers[Len(newAnswers)]

CombinedAnswer(newAnswers) ==
  CombinedUpTo(newAnswers, Len(newAnswers))

\* ---- DeleteModal (components/DeleteModal.tsx) ----
UpperCase ==
  <<"A", "B", "C", "D", "E", "F", "G", "H", "I", "J", "K", "L", "M",
    "N", "O", "P", "Q", "R", "S", "T", "U", "V", "W", "X", "Y", "Z">>

LowerCase ==
  <<"a", "b", "c", "d", "e", "f", "g", "h", "i", "j", "k", "l", "m",
    "n", "o", "p", "q", "r", "s", "t", "u", "v", "w", "x", "y", "z">>

\* String.prototype.toLowerCase
ToLowerCase(s) ==
  [k \in 1..Len(s) |->
     IF \E i \in 1..26 : UpperCase[i] = s[k]
     THEN LowerCase[CHOOSE i \in 1..26 : UpperCase[i] = s[k]]
     ELSE s[k]]

\* String.prototype.trim
Trim(s) ==
  LET keep == {k \in 1..Len(s) : s[k] \notin Whitespace}
  IN  IF keep = {} THEN EmptyText
      ELSE SubSeq(s, Min(keep), CHOOSE k \in keep : \A j \in keep : j <= k)

DeleteWord == <<"d", "e", "l", "e", "t", "e">>

\* what the user types into the confirmation field
ConfirmTexts ==
  {DeleteWord,
   <<"D", "E", "L", "E", "T", "E">>,
   <<" ", "D", "e", "l", "e", "t", "e", " ">>,
   <<"d", "e", "l", "e", "t">>,
   <<"d", "e", "l", " ", "e", "t", "e">>,
   <<" ">>}

\* the confirm button enabled whenever the checkbox is ticked
canDelete_CheckOnly(w) ==
  w.confirmCheck

\* canDelete (line 27)
canDelete(w) ==
  w.confirmCheck /\ Trim(ToLowerCase(w.confirmText)) = DeleteWord

\* useState initial values (lines 12-14)
DeleteModalInitial(w) ==
  [w EXCEPT !.confirmText = EmptyText, !.isDeleting = FALSE,
            !.confirmCheck = FALSE]

\* ---- the render that follows a handler, and its effects ----
Render(w) ==
  LET r == IF ~w.viewMounted \/ w.sessionStatus.status = w.effectStatus
           THEN w
           ELSE LET x == w.pollingInterval
                    cl == CurrentClosure(w)
                    e == PollingEffect(PollingEffectCleanup(w), x, cl)
                IN  [e EXCEPT !.effectStatus = w.sessionStatus.status,
                              !.effectPollingInterval = x]
  IN  \* DeleteModal and ChatModal exist only inside the main layout; the
      \* effect of ChatModal runs when it is mounted and when isOpen or the
      \* questions array has changed
      IF ~MainLayout(r)
      THEN ChatModalInitial(DeleteModalInitial(r))
      ELSE IF ~MainLayout(World)
      THEN ChatModalEffect(ChatModalInitial(r))
      ELSE IF r.showChatModal # showChatModal \/ r.statusReplaced
      THEN ChatModalEffect(r)
      ELSE r

Commit(w) == Apply(Normalise(Render(w)))

\* ---- the remote service ----
\* the session expires at the last instant of the modelled time; the clock
\* is read once per countdown period
SessionExpiry == MaxNow * COUNTDOWN_MS

Payload(srv) ==
  [status |-> srv.status, artifacts_ready |-> srv.artifacts_ready,
   artifacts_available |-> srv.artifacts_available,
   pending_questions |-> srv.pending_questions, expires_at |-> srv.expires_at]

\* GET status: the record as it is when the request is handled, NotFound
\* once the record is gone, or a server or network failure
StatusResponses(srv) ==
  IF srv.exists THEN {[code |-> 200, body |-> Payload(srv)]}
  ELSE {[code |-> 404, body |-> NullStatus]}

\* what the client receives: the service's answer, a server error (500) or a
\* network failure (no response, code 0)
Received(resp) ==
  {resp, [code |-> 500, body |-> NullStatus], [code |-> 0, body |-> NullStatus]}

\* fetchSessionStatus up to its await (lines 82-86)
fetchSessionStatus(w, cl, resp, fromChat) ==
  IF ~w.sessionId THEN w
  ELSE [w EXCEPT !.statusReqs = @ (+) SetToBag({[resp |-> resp, cl |-> cl,
                                                  chat |-> fromChat]}),
                 !.overflow = @ \/ (BagCardinality(w.statusReqs) >= MaxStatusReqs)]

\* the pipeline advances on its own (spec section 4.2)
\* ... an agent asks clarifying questions
ServerAsks ==
  /\ server.exists /\ server.status = "processing"
  /\ Apply([World EXCEPT !.server.status = "waiting_for_input",
                         !.server.pending_questions = TRUE,
                         !.promptDismissed = FALSE])

\* ... the run ends; the artifacts may lag the status
ServerCompletes ==
  /\ server.exists /\ server.status = "processing"
  /\ \E st \in SuccessStatuses : Apply([World EXCEPT !.server.status = st])

\* ... the artifacts are written, and declared ready
ServerArtifacts ==
  /\ server.exists /\ server.status \in SuccessStatuses
  /\ \/ /\ ~server.artifacts_available
        /\ Apply([World EXCEPT !.server.artifacts_available = TRUE])
     \/ /\ ~server.artifacts_ready
        /\ Apply([World EXCEPT !.server.artifacts_ready = TRUE])

\* ... a stage fails
ServerFails ==
  /\ server.exists
  /\ server.status \in {"uploading", "processing", "waiting_for_input"}
  /\ Apply([World EXCEPT !.server.status = "error",
                         !.server.pending_questions = FALSE])

\* the retention sweep removes the record once the session has expired
ServerSweep ==
  /\ server.exists
  /\ now >= server.expires_at
  /\ Apply([World EXCEPT !.server.exists = FALSE])

\* wall-clock time passes
Tick ==
  /\ now < MaxNow * COUNTDOWN_MS
  /\ Apply([World EXCEPT !.now = @ + COUNTDOWN_MS])

\* ---- timers fire ----
\* a poll timer calls the fetchSessionStatus of the render that created it
\* ... when the response to every earlier request has arrived
PollTick ==
  /\ statusReqs = EmptyBag
  /\ \E t \in PollTimers : \E resp \in StatusResponses(server) :
       Commit(fetchSessionStatus(World, t.cl, resp, FALSE))

\* ... while an earlier request is still outstanding
PollTickOverlap ==
  /\ statusReqs # EmptyBag
  /\ \E t \in PollTimers : \E resp \in StatusResponses(server) :
       Commit(fetchSessionStatus(World, t.cl, resp, FALSE))

CountdownTick ==
  \E t \in CountdownTimers : Commit(updateTimer(World, t.expiresAt))

\* the redirect scheduled by the not-found branch (lines 145-147)
RedirectFires ==
  /\ redirectTimers > 0
  /\ Commit([World EXCEPT !.redirectTimers = @ - 1, !.navigations = Inc2(@)])

\* ---- a status response arrives ----
StatusResponse ==
  \E r \in BagToSet(statusReqs) : \E resp \in Received(r.resp) :
    LET w0 == [World EXCEPT !.statusReqs = @ (-) SetToBag({r})]
        w1 == IF resp.code = 200
              THEN fetchSucceeded(w0, r.cl, resp.body)
              ELSE fetchFailed(w0, r.cl, resp.code)
        \* the rest of handleChatResponse and of ChatModal.handleSubmit
        \* (session page lines 230-236, ChatModal lines 64-70)
        w2 == IF r.chat
              THEN SetState(SetState(w1, "isSubmitting", FALSE),
                            "showChatModal", FALSE)
              ELSE w1
    IN  Commit([w2 EXCEPT !.chatSubmitting = IF r.chat THEN FALSE ELSE @])

\* ---- startProcessing (lines 165-180) ----
ClickStart ==
  /\ MainLayout(World)
  /\ sessionStatus.status = "uploading"
  /\ sessionId
  /\ BagCardinality(startReqs) < MaxPosts
  /\ Commit([World EXCEPT !.startReqs = @ (+) SetToBag({CurrentClosure(World)})])

\* POST start answered: the service acknowledges only a session that is
\* uploading, and the ack moves the record to processing
StartResponse ==
  \E cl \in BagToSet(startReqs) :
  \E ok \in {FALSE, server.exists /\ server.status = "uploading"} :
    LET w0 == [World EXCEPT !.startReqs = @ (-) SetToBag({cl})]
    IN  IF ok
        THEN LET w1 == [w0 EXCEPT !.server.status = "processing"]
                 w2 == setInterval(w1, "poll", MEDIUM_POLL_MS, cl, 0)
             IN  Commit(SetState(w2, "pollingInterval", w2.ret))
        ELSE Commit(w0)

\* ---- the user works in the question prompt ----
\* the prompt is on screen (ChatModal line 73)
ChatModalShown ==
  MainLayout(World) /\ showChatModal /\ sessionStatus.pending_questions

\* the textarea's onChange (ChatModal line 158), the text taken from S
TypeAnswerFrom(S) ==
  /\ ChatModalShown
  /\ \E text \in S \ {currentAnswer} :
       Commit([World EXCEPT !.currentAnswer = text])

TypeAnswer == TypeAnswerFrom(Texts)

\* ... with one fixed answer
TypeReply == TypeAnswerFrom({<<"1">>})

NextQuestion ==
  /\ ChatModalShown
  /\ ~isLastQuestion(World) /\ canProceed(World)
  /\ Commit(handleNext(World))

PreviousQuestion ==
  /\ ChatModalShown
  /\ ~isFirstQuestion(World)
  /\ Commit(handlePrevious(World))

\* ---- ChatModal.handleSubmit (lines 53-64) and handleChatResponse up to
\* ---- its await (lines 183-209) ----
SubmitAnswers ==
  /\ ChatModalShown
  /\ isLastQuestion(World) /\ canProceed(World)
  /\ ~chatSubmitting
  /\ BagCardinality(answerReqs) < MaxPosts
  /\ LET response == CombinedAnswer(NewAnswers(World))
     IN  Commit([SetState(World, "isSubmitting", TRUE)
                   EXCEPT !.chatSubmitting = TRUE,
                          !.answerReqs =
                             @ (+) SetToBag({[cl |-> CurrentClosure(World),
                                              response |-> response,
                                              body |-> ParseAnswers(response)]})])

\* POST answer answered: the service acknowledges only a session that is
\* waiting for input, and the ack moves the record back to processing
AnswerResponse ==
  \E r \in BagToSet(answerReqs) :
  \E ok \in {FALSE, server.exists /\ server.status = "waiting_for_input"} :
    LET cl == r.cl
        w0 == [World EXCEPT !.answerReqs = @ (-) SetToBag({r})]
    IN  IF ok
        THEN LET w1 == [w0 EXCEPT !.server.status = "processing",
                                  !.server.pending_questions = FALSE]
                 w2 == SetState(w1, "showChatModal", FALSE)
                 w3 == IF cl.pollingInterval = 0
                       THEN LET t == setInterval(w2, "poll", MEDIUM_POLL_MS, cl, 0)
                            IN  SetState(t, "pollingInterval", t.ret)
                       ELSE w2
             IN  \E resp \in StatusResponses(w3.server) :
                   Commit(fetchSessionStatus(w3, cl, resp, TRUE))
        ELSE Commit([SetState(SetState(w0, "isSubmitting", FALSE),
                              "showChatModal", FALSE)
                       EXCEPT !.chatSubmitting = FALSE])

\* ---- deletion ----
\* DeleteModal.handleConfirm (DeleteModal lines 16-25): the confirm button is
\* disabled while isDeleting; onConfirm is handleDeleteSession, which settles
\* at once when it returns at its guard
ConfirmDelete ==
  /\ MainLayout(World)
  /\ showDeleteModal /\ ~isDeleting
  /\ canDelete(World)
  /\ LET w == handleDeleteSession(World, "manual")
     IN  IF BagCardinality(w.deleteReqs) > BagCardinality(deleteReqs)
         THEN Commit([w EXCEPT !.isDeleting = TRUE])
         ELSE Commit(DeleteModalInitial(w))

\* the user fills in the confirmation: the checkbox (DeleteModal line 109)
ToggleConfirmCheck ==
  /\ MainLayout(World) /\ showDeleteModal
  /\ Commit([World EXCEPT !.confirmCheck = ~@])

\* ... and the text field (DeleteModal lines 125-126), the text taken from S
TypeConfirmFrom(S) ==
  /\ MainLayout(World) /\ showDeleteModal
  /\ \E text \in S \ {confirmText} :
       Commit([World EXCEPT !.confirmText = text])

TypeConfirm == TypeConfirmFrom(ConfirmTexts)

\* ... with the word asked for
TypeDelete == TypeConfirmFrom({DeleteWord})

\* what DELETE can be answered with: NotFound only once the record is gone
DeleteOutcomes(srv) ==
  {"500", "network", "other"} \cup (IF srv.exists THEN {"ok"} ELSE {"404"})

routerPush(w) ==
  [w EXCEPT !.navigations = Inc2(@), !.deleteOutcome.pushed = TRUE]

toast(w, kind) == [w EXCEPT !.deleteOutcome.toast = kind]

\* handleDeleteSession that treats success like the 404 answer: it notifies
\* and navigates only if componentMountedRef is set
deleteSettled_MountedOnly(w, outcome) ==
  LET w0 == [w EXCEPT !.deleteOutcome =
                         [outcome |-> outcome, toast |-> "none",
                          pushed |-> FALSE, attached |-> w.viewMounted]]
  IN  IF outcome = "ok"
      THEN IF w0.componentMountedRef
           THEN routerPush(toast([w0 EXCEPT !.server.exists = FALSE], "success"))
           ELSE [w0 EXCEPT !.server.exists = FALSE]
      ELSE IF outcome = "404"
      THEN IF w0.componentMountedRef
           THEN routerPush(toast(w0, "success")) ELSE w0
      ELSE IF outcome = "500"
      THEN IF w0.componentMountedRef THEN routerPush(w0) ELSE w0
      ELSE LET w1 == SetState([w0 EXCEPT !.deletionInProgressRef = FALSE],
                              "deletionInProgress", FALSE)
           IN  IF w1.componentMountedRef THEN toast(w1, "error") ELSE w1

\* handleDeleteSession after its await (lines 260-293)
deleteSettled(w, outcome) ==
  LET w0 == [w EXCEPT !.deleteOutcome =
                         [outcome |-> outcome, toast |-> "none",
                          pushed |-> FALSE, attached |-> w.viewMounted]]
  IN  IF outcome = "ok"
      THEN routerPush(toast([w0 EXCEPT !.server.exists = FALSE], "success"))
      ELSE IF outcome = "404"
      THEN IF w0.componentMountedRef
           THEN routerPush(toast(w0, "success")) ELSE w0
      ELSE IF outcome = "500"
      THEN IF w0.componentMountedRef THEN routerPush(w0) ELSE w0
      ELSE LET w1 == SetState([w0 EXCEPT !.deletionInProgressRef = FALSE],
                              "deletionInProgress", FALSE)
           IN  IF w1.componentMountedRef THEN toast(w1, "error") ELSE w1

\* the DELETE request settles; seen tells whether the step keeps the record
\* of how it ended
DeleteSettles(seen) ==
  \E via \in BagToSet(deleteReqs) : \E outcome \in DeleteOutcomes(server) :
    LET w0 == [World EXCEPT !.deleteReqs = @ (-) SetToBag({via})]
        w1 == deleteSettled(w0, outcome)
        \* the finally of DeleteModal.handleConfirm (lines 20-24)
        w2 == IF via = "manual" THEN DeleteModalInitial(w1) ELSE w1
    IN  Commit([w2 EXCEPT !.deleteOutcome = IF seen THEN @ ELSE NoOutcome])

DeleteResponse == DeleteSettles(FALSE)

DeleteResponseSeen == DeleteSettles(TRUE)

\* ---- the user opens and closes the dialogs ----
OpenDeleteModal ==
  /\ MainLayout(World) /\ ~showDeleteModal
  /\ Commit(SetState(World, "showDeleteModal", TRUE))

CloseDeleteModal ==
  /\ MainLayout(World) /\ showDeleteModal
  /\ Commit(SetState(World, "showDeleteModal", FALSE))

OpenChatModal ==
  /\ MainLayout(World) /\ ~showChatModal
  /\ sessionStatus.status = "waiting_for_input" /\ sessionStatus.pending_questions
  /\ Commit(SetState(World, "showChatModal", TRUE))

CloseChatModal ==
  /\ MainLayout(World) /\ showChatModal /\ sessionStatus.pending_questions
  /\ Commit([SetState(World, "showChatModal", FALSE)
               EXCEPT !.promptDismissed = TRUE])

CloseArtifacts ==
  /\ MainLayout(World) /\ showArtifacts
  /\ Commit(SetState(World, "showArtifacts", FALSE))

ViewDocuments ==
  /\ MainLayout(World) /\ ~showArtifacts
  /\ IsReady(sessionStatus)
  /\ Commit(SetState(World, "showArtifacts", TRUE))

\* ---- the session-id effect, deps [sessionId] (lines 369-401) ----
\* The effect runs in the first render and again when router.query delivers
\* the id; no timer exists in either render, so the pollingInterval and
\* countdownInterval its cleanup reads are null.
MountEffectCleanup(w) ==
  LET w1 == [w EXCEPT !.componentMountedRef = FALSE]
      w2 == IF w1.pollingIntervalRef # 0
            THEN [clearInterval(w1, w1.pollingIntervalRef)
                    EXCEPT !.pollingIntervalRef = 0]
            ELSE w1
      w3 == IF w2.countdownIntervalRef # 0
            THEN [clearInterval(w2, w2.countdownIntervalRef)
                    EXCEPT !.countdownIntervalRef = 0]
            ELSE w2
  IN  SetState(w3, "artifactsAutoOpened", FALSE)

\* router.query is empty in the first render of a page loaded by URL and is
\* filled in afterwards
RouterReady ==
  /\ viewMounted /\ ~sessionId
  /\ \E resp \in StatusResponses(server) :
       LET w1 == MountEffectCleanup([World EXCEPT !.sessionId = TRUE])
       IN  Commit(fetchSessionStatus(w1, CurrentClosure(w1), resp, FALSE))

\* the view is torn down: both effects are cleaned up and React discards the
\* component's state (the refs stay reachable from timers and continuations)
Discard(w) ==
  [w EXCEPT !.viewMounted = FALSE, !.sessionStatus = NullStatus,
            !.loading = TRUE, !.error = "none", !.showChatModal = FALSE,
            !.showArtifacts = FALSE, !.artifactsAutoOpened = FALSE,
            !.showDeleteModal = FALSE, !.pollingInterval = 0,
            !.countdownText = NoText, !.countdownInterval = 0,
            !.deletionInProgress = FALSE, !.autoDeleteAttempted = FALSE,
            !.isSubmitting = FALSE, !.effectStatus = "null",
            !.effectPollingInterval = 0]

Unmount ==
  /\ viewMounted
  /\ Commit(Discard(PollingEffectCleanup(MountEffectCleanup(World))))

\* ---- the state after the first render and its effects ----
InitialServer ==
  [status |-> "uploading", artifacts_ready |-> FALSE,
   artifacts_available |-> FALSE, pending_questions |-> FALSE, exists |-> TRUE,
   expires_at |-> SessionExpiry]

\* the view is opened on a session whose record is srv; hasId tells whether
\* router.query already holds the id in the first render
InitView(hasId, srv) ==
  /\ sessionId = hasId
  /\ sessionStatus = NullStatus
  /\ loading = TRUE
  /\ error = "none"
  /\ showChatModal = FALSE
  /\ showArtifacts = FALSE
  /\ artifactsAutoOpened = FALSE
  /\ showDeleteModal = FALSE
  /\ pollingInterval = 0
  /\ countdownText = NoText
  /\ countdownInterval = 0
  /\ deletionInProgress = FALSE
  /\ autoDeleteAttempted = FALSE
  /\ isSubmitting = FALSE
  /\ deletionInProgressRef = FALSE
  /\ autoDeleteAttemptedRef = FALSE
  /\ countdownIntervalRef = 0
  /\ pollingIntervalRef = 0
  /\ componentMountedRef = TRUE
  /\ viewMounted = TRUE
  /\ effectStatus = "null"
  /\ effectPollingInterval = 0
  /\ isDeleting = FALSE
  /\ chatSubmitting = FALSE
  /\ currentQuestionIndex = 0
  /\ answers = <<>>
  /\ currentAnswer = EmptyText
  /\ confirmText = EmptyText
  /\ confirmCheck = FALSE
  /\ timers = {}
  /\ server = srv
  /\ \E resp \in StatusResponses(srv) :
       statusReqs = IF sessionId
                    THEN SetToBag({[resp |-> resp, cl |-> NoClosure, chat |-> FALSE]})
                    ELSE EmptyBag
  /\ startReqs = EmptyBag
  /\ answerReqs = EmptyBag
  /\ deleteReqs = EmptyBag
  /\ redirectTimers = 0
  /\ notified = FALSE
  /\ now = 0
  /\ notifyCount = 0
  /\ autoDeletesIssued = 0
  /\ repeatedZeroCrossing = FALSE
  /\ countdownRestarted = FALSE
  /\ blockedInFlight = FALSE
  /\ navigations = 0
  /\ deleteOutcome = NoOutcome
  /\ promptDismissed = FALSE

ServerStates ==
  {srv \in [status : {"uploading", "processing", "waiting_for_input",
                      "completed", "requires_review", "error"},
            artifacts_ready : BOOLEAN, artifacts_available : BOOLEAN,
            pending_questions : BOOLEAN, exists : BOOLEAN,
            expires_at : {SessionExpiry}] :
     /\ srv.pending_questions <=> srv.status = "waiting_for_input"
     /\ srv.artifacts_ready \/ srv.artifacts_available
          => srv.status \in SuccessStatuses}

Init == \E hasId \in BOOLEAN : \E srv \in ServerStates : InitView(hasId, srv)

Next ==
  \/ ServerAsks
  \/ ServerCompletes
  \/ ServerArtifacts
  \/ ServerFails
  \/ ServerSweep
  \/ Tick
  \/ PollTick
  \/ PollTickOverlap
  \/ CountdownTick
  \/ RedirectFires
  \/ StatusResponse
  \/ ClickStart
  \/ StartResponse
  \/ TypeAnswer
  \/ TypeReply
  \/ NextQuestion
  \/ PreviousQuestion
  \/ SubmitAnswers
  \/ AnswerResponse
  \/ ToggleConfirmCheck
  \/ TypeConfirm
  \/ TypeDelete
  \/ ConfirmDelete
  \/ DeleteResponse
  \/ DeleteResponseSeen
  \/ OpenDeleteModal
  \/ CloseDeleteModal
  \/ OpenChatModal
  \/ CloseChatModal
  \/ CloseArtifacts
  \/ ViewDocuments
  \/ RouterReady
  \/ Unmount

Spec == Init /\ [][Next]_vars

\* ---- the polling life cycle of a freshly uploaded session ----
InitPoll == InitView(TRUE, InitialServer)

NextPoll ==
  \/ ServerAsks
  \/ ServerCompletes
  \/ ServerFails
  \/ PollTick
  \/ StatusResponse
  \/ ClickStart
  \/ StartResponse
  \/ TypeReply
  \/ NextQuestion
  \/ SubmitAnswers
  \/ AnswerResponse
  \/ Unmount

SpecPoll == InitPoll /\ [][NextPoll]_vars

\* ---- a session that is being processed when the view opens: completion,
\* ---- the expiry countdown and deletion ----
InitExpiry ==
  \E hasId \in BOOLEAN :
    InitView(hasId, [InitialServer EXCEPT !.status = "processing"])

NextExpiry ==
  \/ ServerCompletes
  \/ ServerArtifacts
  \/ ServerSweep
  \/ Tick
  \/ PollTick
  \/ PollTickOverlap
  \/ CountdownTick
  \/ StatusResponse
  \/ ToggleConfirmCheck
  \/ TypeDelete
  \/ ConfirmDelete
  \/ DeleteResponse
  \/ OpenDeleteModal
  \/ CloseDeleteModal
  \/ RouterReady
  \/ Unmount

SpecExpiry == InitExpiry /\ [][NextExpiry]_vars

\* ---- deletion of a session that is being processed, with the outcome of
\* ---- every DELETE request on record ----
NextDelete ==
  \/ ServerSweep
  \/ Tick
  \/ PollTick
  \/ StatusResponse
  \/ ToggleConfirmCheck
  \/ TypeConfirm
  \/ ConfirmDelete
  \/ DeleteResponseSeen
  \/ OpenDeleteModal
  \/ CloseDeleteModal
  \/ RouterReady
  \/ Unmount

SpecDelete == InitExpiry /\ [][NextDelete]_vars

\* ---- a freshly uploaded session up to the presentation of its questions
\* ---- and artifacts, with the user closing and reopening the dialogs ----
NextDialogs ==
  \/ ServerAsks
  \/ ServerCompletes
  \/ ServerArtifacts
  \/ PollTick
  \/ StatusResponse
  \/ ClickStart
  \/ StartResponse
  \/ OpenChatModal
  \/ CloseChatModal
  \/ CloseArtifacts
  \/ ViewDocuments

SpecDialogs == InitPoll /\ [][NextDialogs]_vars

\* ---- a session that waits for the user's answers when the view opens ----
InitChat ==
  InitView(TRUE, [InitialServer EXCEPT !.status = "waiting_for_input",
                                       !.pending_questions = TRUE])

\* ... the user answers the questions and submits
NextAnswer ==
  \/ StatusResponse
  \/ TypeAnswer
  \/ NextQuestion
  \/ PreviousQuestion
  \/ SubmitAnswers

SpecAnswer == InitChat /\ [][NextAnswer]_vars

\* ... the user answers while the view goes on polling
NextChat ==
  \/ PollTick
  \/ StatusResponse
  \/ TypeReply
  \/ NextQuestion
  \/ PreviousQuestion
  \/ SubmitAnswers
  \/ AnswerResponse

SpecChat == InitChat /\ [][NextChat]_vars

\* ---- a session that expires and is swept while the view polls it ----
NextNotFound ==
  \/ Tick
  \/ ServerSweep
  \/ PollTick
  \/ PollTickOverlap
  \/ StatusResponse
  \/ RedirectFires

InitNotFound == InitView(TRUE, [InitialServer EXCEPT !.status = "processing"])

SpecNotFound == InitNotFound /\ [][NextNotFound]_vars

\* ---- the countdown of a finished session, for a range of expiry instants ----
\* the time left, in milliseconds, when the view opens
TimeLeftSamples ==
  {1, 999, 1000, 1001, 2000, 59999, 60000, 61001, 120000, 3599999, 3600000,
   3601000, 3661001, 7325999, 86400000, 90061001}

InitCountdown ==
  \E t \in TimeLeftSamples :
    InitView(TRUE, [InitialServer EXCEPT !.status = "completed",
                                         !.artifacts_ready = TRUE,
                                         !.artifacts_available = TRUE,
                                         !.expires_at = t])

NextCountdown ==
  \/ StatusResponse
  \/ Tick
  \/ CountdownTick

SpecCountdown == InitCountdown /\ [][NextCountdown]_vars

\* ======================= properties =======================

\* C1: at no point are two poll interval timers active at the same time.
AtMostOnePollTimer == Cardinality(PollTimers) <= 1

\* C2: once the countdown has observed expiry on the mounted view with no
\* deletion in flight and no earlier automatic attempt (the step that sets
\* autoDeleteAttemptedRef), exactly one DELETE request has been issued by the
\* automatic path.
AutoDeleteIssuesOneRequest == autoDeleteAttemptedRef => autoDeletesIssued = 1

\* C3: at most one DELETE request is in flight at any time.
AtMostOneDeleteInFlight == BagCardinality(deleteReqs) <= 1

\* a deletion call was rejected while a DELETE request was in flight, and the
\* request is still outstanding
DeleteCallRejectedInFlight == blockedInFlight /\ BagCardinality(deleteReqs) = 1

\* C4: the automatic deletion path issues at most one DELETE request over the
\* lifetime of the view.
AutoDeleteAtMostOnce == autoDeletesIssued <= 1

\* the zero-crossing handler has run again after the automatic attempt
ZeroCrossingRepeated == repeatedZeroCrossing /\ autoDeleteAttemptedRef

\* C5: once the displayed status is completed, no later-arriving payload turns
\* it back to processing.
NoBackwardTransition ==
  [][sessionStatus.status = "completed" => sessionStatus'.status # "processing"]_vars

\* C6: while the applied status is terminal no poll timer of the view is
\* active.
TerminalStopsPolling ==
  sessionStatus.status \in TerminalStatuses => PollTimers = {}

\* C7: while the view shows the server-error or connectivity message of a
\* failed status fetch, no poll timer is active.
FetchFailureHaltsPolling ==
  error \in {"Server error occurred", "Failed to connect to server"}
    => PollTimers = {}

\* C8 (as stated): whenever the applied payload is terminal with artifacts
\* ready, the completion notification has been emitted exactly once.
NotifiedOnceWhenReady == IsReady(sessionStatus) => notifyCount = 1

\* C8 (amended): the completion notification is never emitted twice, and it
\* has been emitted exactly once whenever the applied payload is terminal with
\* artifacts ready and a non-empty artifacts_available.
NotifiedOnceWhenPresentable ==
  /\ notifyCount <= 1
  /\ IsReady(sessionStatus) /\ sessionStatus.artifacts_available
       => notifyCount = 1

\* a second presentable payload has been applied (it restarted the countdown)
SeveralPresentableApplied ==
  /\ countdownRestarted /\ notifyCount = 1
  /\ IsReady(sessionStatus) /\ sessionStatus.artifacts_available

\* C9: at most one countdown interval timer is active.
AtMostOneCountdownTimer == Cardinality(CountdownTimers) <= 1

\* updateCountdown has replaced a running countdown and the new one is active
CountdownReplaced == countdownRestarted /\ Cardinality(CountdownTimers) = 1

\* C10: after the view has been torn down it owns no active timer.
NoTimerAfterTeardown == ~viewMounted => timers = {}

\* a status response, resp. a deletion response, is handled in this step
StatusResponseStep == BagCardinality(statusReqs') < BagCardinality(statusReqs)

DeleteResponseStep == BagCardinality(deleteReqs') < BagCardinality(deleteReqs)

\* C11: a status or deletion response handled after the view has been torn
\* down changes no state of the view, calls no navigation and schedules none.
LateResponseInert ==
  [][~viewMounted /\ (StatusResponseStep \/ DeleteResponseStep)
       => /\ navigations' = navigations
          /\ redirectTimers' = redirectTimers
          /\ sessionStatus' = sessionStatus /\ error' = error]_vars

\* C12: while a DELETE request is in flight no poll timer and no countdown
\* timer is active.
NoTimerWhileDeleting == deleteReqs # EmptyBag => timers = {}

\* C13: the attached view is never left with the in-flight guard set while no
\* DELETE request is outstanding and no navigation has been requested.
DeletionNeverStuck ==
  viewMounted /\ deletionInProgressRef /\ deleteReqs = EmptyBag
    => navigations > 0

\* C14: when the DELETE request of the attached view is answered 404, a
\* success notification is shown, router.push is called, and the guard stays
\* set.
NotFoundDeleteIsSuccess ==
  [][DeleteResponseStep /\ viewMounted /\ deleteOutcome'.outcome = "404"
       => /\ deleteOutcome'.toast = "success"
          /\ deleteOutcome'.pushed
          /\ error' = error
          /\ deletionInProgressRef']_vars

\* C15: when the DELETE request of the attached view is answered 500, the view
\* navigates away with no notification and the guard stays set.
ServerFailureDeleteNavigates ==
  [][DeleteResponseStep /\ viewMounted /\ deleteOutcome'.outcome = "500"
       => /\ deleteOutcome'.toast = "none"
          /\ deleteOutcome'.pushed
          /\ deletionInProgressRef']_vars

\* C16: when the DELETE request of the attached view fails at network level,
\* the guard is reset and the retry message is shown.
NetworkFailureDeleteResets ==
  [][DeleteResponseStep /\ viewMounted /\ deleteOutcome'.outcome = "network"
       => /\ ~deletionInProgressRef'
          /\ deleteOutcome'.toast = "error"
          /\ ~deleteOutcome'.pushed]_vars

\* C17: while the view shows the session-not-found message no poll timer is
\* active, and a navigation home is scheduled or has happened.
NotFoundStopsPolling ==
  error = "Session not found or has expired"
    => PollTimers = {} /\ (redirectTimers > 0 \/ navigations > 0)

\* the period the cadence policy gives a status (0: no polling)
Cadence(st) ==
  IF st \in ActiveStatuses THEN FAST_POLL_MS
  ELSE IF st = "uploading" THEN MEDIUM_POLL_MS
  ELSE 0

\* C18: every active poll timer of the attached view has the period of the
\* applied status, and there is none in a terminal status.
CadenceMatchesStatus ==
  viewMounted /\ sessionStatus.status # "null"
    => \A t \in PollTimers : t.period = Cadence(sessionStatus.status)

\* C19: a status response opens the question prompt only when it applies a
\* waiting_for_input payload with pending questions, and never again once the
\* user has dismissed the prompt for the pending question set.
PromptNotReopened ==
  [][StatusResponseStep /\ ~showChatModal /\ showChatModal'
       => /\ sessionStatus'.status = "waiting_for_input"
          /\ sessionStatus'.pending_questions
          /\ ~promptDismissed]_vars

\* C20: once the artifacts panel has been presented automatically and the
\* user has closed it, no status response opens it again.
ArtifactsNotReopened ==
  [][StatusResponseStep /\ artifactsAutoOpened /\ ~showArtifacts
       => ~showArtifacts']_vars

\* the answer endpoint acknowledges the submission in this step
AnswerAckStep ==
  /\ BagCardinality(answerReqs') < BagCardinality(answerReqs)
  /\ server.status = "waiting_for_input" /\ server'.status = "processing"

\* C21: when the answer endpoint acknowledges the submission of the attached
\* view, the prompt is closed, and if the submitting render held no poll timer
\* (pollingInterval null) the view holds afterwards a poll timer of the fast
\* period.
AnswerRestartsFastPolling ==
  [][AnswerAckStep /\ viewMounted
       => /\ ~showChatModal'
          /\ \A r \in BagToSet(answerReqs) :
               r.cl.pollingInterval = 0
                 => \E t \in PollTimers' : /\ t.id = pollingInterval'
                                           /\ t.period = FAST_POLL_MS]_vars

\* the value is a JSON object all of whose members are strings; of two
\* members with one key the later one counts
WellFormedMap(v) ==
  /\ v.type = "object"
  /\ \A i \in 1..Len(v.members) :
       \/ v.members[i][2].type = "string"
       \/ \E j \in (i + 1)..Len(v.members) : v.members[j][1] = v.members[i][1]

\* C22: the answers of every request sent to the answer endpoint are a map
\* from string keys to string values, and when the submitted text is not JSON
\* they are the single key general_response with that text.
AnswersWellFormed ==
  \A r \in BagToSet(answerReqs) :
    /\ WellFormedMap(r.body)
    /\ ~JSONParse(r.response).ok
         => r.body.members =
              << <<GeneralResponseKey,
                   [type |-> "string", text |-> r.response]>> >>

\* a request is in flight whose last answer, taken alone, is a JSON object or
\* array that is no map of strings
StructuredAnswerSubmitted ==
  /\ \E r \in BagToSet(answerReqs) :
       r.response = CombinedAnswer(NewAnswers(World))
  /\ JSONParse(currentAnswer).ok
  /\ JSONParse(currentAnswer).val.type \in {"object", "array"}
  /\ ~WellFormedMap(JSONParse(currentAnswer).val)

\* C23: while a countdown timer of the attached view is active, the applied
\* payload is completed or requires_review with artifacts_ready, and the timer
\* is seeded with that payload's expires_at.
CountdownOnlyWhenReady ==
  viewMounted /\ CountdownTimers # {}
    => /\ IsReady(sessionStatus)
       /\ \A t \in CountdownTimers : t.expiresAt = sessionStatus.expires_at

\* C24: a step that issues a DELETE request through the manual path starts
\* in a state where the confirmation checkbox is ticked and the text typed is
\* 'delete' up to case and surrounding whitespace.
ManualDeleteConfirmed ==
  [][CopiesIn("manual", deleteReqs') > CopiesIn("manual", deleteReqs)
       => /\ confirmCheck
          /\ Trim(ToLowerCase(confirmText)) = DeleteWord]_vars

\* a manual DELETE request is in flight that was confirmed with a text other
\* than the plain word
ConfirmedWithVariant ==
  /\ BagIn("manual", deleteReqs)
  /\ confirmCheck /\ confirmText # DeleteWord

\* C25: once the attached view shows that the files have expired, no
\* countdown timer is active, and the zero-crossing is never handled again
\* after the automatic attempt.
ExpiredCountdownCancelled ==
  /\ viewMounted /\ countdownText = ExpiredText => CountdownTimers = {}
  /\ ~repeatedZeroCrossing

\* C26: a status response that is applied while the prompt is on screen and
\* that leaves it on screen with pending questions changes neither the
\* answers given so far, nor the answer being typed, nor the question shown.
AnswersKeptAcrossPoll ==
  [][(StatusResponseStep /\ ChatModalShown /\ error' = "none"
        /\ showChatModal' /\ sessionStatus'.pending_questions)
       => /\ answers' = answers
          /\ currentAnswer' = currentAnswer
          /\ currentQuestionIndex' = currentQuestionIndex]_vars

\* C27: when a DELETE request has succeeded, the success notification has
\* been shown and router.push called, whatever the state of the view, and from
\* then on the in-flight guard stays set and no DELETE request is in flight.
DeleteSuccessIsFinal ==
  [](deleteOutcome.outcome = "ok"
       => /\ deleteOutcome.toast = "success" /\ deleteOutcome.pushed
          /\ [](deletionInProgressRef /\ deleteReqs = EmptyBag))

\* a DELETE request has succeeded after componentMountedRef had been cleared
DeleteSucceededDetached ==
  deleteOutcome.outcome = "ok" /\ ~componentMountedRef /\ deleteOutcome.pushed

\* C28: while the attached view shows a payload with status error, no poll
\* timer is active and no status request is in flight.
ErrorStopsPolling ==
  viewMounted /\ sessionStatus.status = "error" /\ error = "none"
    => PollTimers = {} /\ statusReqs = EmptyBag

\* C29: once the session record is gone (deleted or swept after expiry), the
\* browser's storage holds no 'notified' marker of the session.
MarkerRemovedWithSession == ~server.exists => ~notified

\* C30: while the attached view shows a completed or requires_review payload
\* whose artifacts are not ready, it goes on observing the session: a poll
\* timer is active or a status request is in flight.
ObservesUntilArtifactsReady ==
  (viewMounted /\ error = "none" /\ sessionStatus.status \in SuccessStatuses
     /\ ~sessionStatus.artifacts_ready)
    => PollTimers # {} \/ statusReqs # EmptyBag

\* C31: at most one status request of the view is in flight at any time.
AtMostOneStatusInFlight == BagCardinality(statusReqs) <= 1

\* C32: componentMountedRef is set in every state in which the view is
\* attached.
MountedWhileAttached == viewMounted => componentMountedRef

\* the countdown of the view has shown a remaining time and not yet the expiry
ShowsTimeLeft == countdownText.kind \in {"hms", "ms", "s"}

\* C33: when the manual DELETE request of the attached view, issued while the
\* countdown showed a remaining time, fails transiently (the guard is reset),
\* a countdown timer is active afterwards, so that the expiry is still observed.
MonitorArmedAfterFailedDelete ==
  [][(DeleteResponseStep /\ BagToSet(deleteReqs) = {"manual"}
        /\ viewMounted /\ componentMountedRef /\ ShowsTimeLeft
        /\ ~deletionInProgressRef')
       => CountdownTimers' # {}]_vars

\* the submission of the answers fails in this step: the request settles
\* without the acknowledgement of the answer endpoint
AnswerFailStep ==
  /\ BagCardinality(answerReqs') < BagCardinality(answerReqs)
  /\ ~AnswerAckStep

\* C34: when the submission fails while the prompt is on screen, the prompt
\* stays open and the answers entered are kept.
FailedSubmitKeepsPrompt ==
  [][(AnswerFailStep /\ ChatModalShown)
       => /\ showChatModal'
          /\ answers' = answers
          /\ currentAnswer' = currentAnswer
          /\ currentQuestionIndex' = currentQuestionIndex]_vars

\* C35: in a step that starts after the view has been torn down, or with
\* componentMountedRef cleared, the automatic path issues no DELETE request
\* and records no attempt, and the in-flight guard is set by nothing but a
\* manual request.
NoAutoDeleteWhenDetached ==
  [][(~viewMounted \/ ~componentMountedRef)
       => /\ CopiesIn("auto", deleteReqs') <= CopiesIn("auto", deleteReqs)
          /\ autoDeletesIssued' = autoDeletesIssued
          /\ autoDeleteAttemptedRef' = autoDeleteAttemptedRef
          /\ (~deletionInProgressRef /\ deletionInProgressRef')
               => CopiesIn("manual", deleteReqs')
                    > CopiesIn("manual", deleteReqs)]_vars

\* the countdown has observed the expiry with componentMountedRef cleared, and
\* no deletion has been started
ExpiryObservedDetached ==
  /\ ~componentMountedRef /\ countdownText = ExpiredText
  /\ CountdownTimers # {}
  /\ ~deletionInProgressRef /\ ~autoDeleteAttemptedRef
  /\ autoDeletesIssued = 0 /\ deleteReqs = EmptyBag

\* C36: the not-found outcomes of polling cause at most one navigation home:
\* those scheduled and those carried out are together at most one.
NotFoundNavigatesOnce == redirectTimers + navigations <= 1

\* the text holds a character that is no whitespace
NonBlank(text) == \E k \in 1..Len(text) : text[k] \notin Whitespace

\* part occurs in text at position p
OccursAt(text, part, p) ==
  /\ p + Len(part) - 1 <= Len(text)
  /\ SubSeq(text, p, p + Len(part) - 1) = part

\* parts[i], parts[i+1], ... occur in text one after the other, from position
\* from on
RECURSIVE ContainsFrom(_, _, _, _)
ContainsFrom(text, parts, i, from) ==
  IF i > Len(parts) THEN TRUE
  ELSE \E p \in from..(Len(text) + 1) :
         /\ OccursAt(text, parts[i], p)
         /\ ContainsFrom(text, parts, i + 1, p + Len(parts[i]))

\* the answer the prompt holds for question i (1-based): the text being typed
\* for the question shown, the stored answer for the others
AnswerGiven(i) ==
  IF i = currentQuestionIndex + 1 THEN currentAnswer ELSE answers[i]

\* C37: a step that sends the answers starts in a state where every question
\* has a non-blank answer, and the text sent contains the answers of all
\* questions in question order.
SubmitsCompleteAnswers ==
  [][BagCardinality(answerReqs') > BagCardinality(answerReqs)
       => /\ \A i \in 1..NumQuestions : NonBlank(AnswerGiven(i))
          /\ \A r \in BagToSet(answerReqs') :
               ContainsFrom(r.response,
                            [i \in 1..NumQuestions |-> AnswerGiven(i)], 1, 1)]_vars

\* the answers have been sent after the user had gone back from the last
\* question and returned to change its answer
SubmittedAfterGoingBack ==
  /\ answerReqs # EmptyBag /\ ChatModalShown
  /\ isLastQuestion(World)
  /\ NonBlank(answers[NumQuestions]) /\ answers[NumQuestions] # currentAnswer
  /\ \A r \in BagToSet(answerReqs) :
       r.response = CombinedAnswer(NewAnswers(World))

\* in world w the prompt shows the question and the answer text it shows now,
\* and holds the answers it holds now for the other questions
SameView(w) ==
  /\ w.currentQuestionIndex = currentQuestionIndex
  /\ w.currentAnswer = currentAnswer
  /\ \A j \in (1..NumQuestions) \ {currentQuestionIndex + 1} :
       w.answers[j] = answers[j]

\* C38: wherever the prompt allows it, Next followed by Previous, and Previous
\* followed by Next, lead back to the question and the answer text shown
\* before and leave the answers stored for the other questions as they were.
NavigationRoundTrip ==
  ChatModalShown
    => /\ (~isLastQuestion(World) /\ canProceed(World))
            => SameView(Render(handlePrevious(Render(handleNext(World)))))
       /\ (~isFirstQuestion(World) /\ canProceed(Render(handlePrevious(World))))
            => SameView(Render(handleNext(Render(handlePrevious(World)))))

\* the user has gone from the first question to the next one, typed there and
\* come back to the answer given before
WentNextAndBack ==
  /\ ChatModalShown /\ isFirstQuestion(World)
  /\ NonBlank(currentAnswer) /\ answers[1] = currentAnswer
  /\ answers[2] # EmptyText

\* the countdown text for a remaining time of t milliseconds
ExpectedText(t) ==
  LET hours == t \div 3600000
      minutes == (t % 3600000) \div 60000
      seconds == (t % 60000) \div 1000
  IN  IF t <= 0 THEN ExpiredText
      ELSE IF hours > 0
      THEN [kind |-> "hms", h |-> hours, m |-> minutes, s |-> seconds]
      ELSE IF minutes > 0
      THEN [kind |-> "ms", h |-> 0, m |-> minutes, s |-> seconds]
      ELSE [kind |-> "s", h |-> 0, m |-> 0, s |-> seconds]

\* C39: a step that reads the clock for a displayed session (it applies a
\* status payload or runs the countdown tick) leaves the countdown text
\* built from the hours, minutes and seconds of the time left, the minutes
\* and seconds below 60, and the expiry text when no time is left.
CountdownTextIsTimeLeft ==
  [][(now' = now /\ viewMounted' /\ sessionStatus'.status # "null")
       => /\ countdownText' = ExpectedText(sessionStatus'.expires_at - now')
          /\ countdownText'.m \in 0..59
          /\ countdownText'.s \in 0..59]_vars

\* the countdown shows 0 seconds with less than a second left
ShowsZeroSeconds ==
  /\ viewMounted /\ CountdownTimers # {}
  /\ countdownText = [kind |-> "s", h |-> 0, m |-> 0, s |-> 0]
  /\ sessionStatus.expires_at - now \in 1..999

TypeOK ==
  /\ pollingInterval \in {DeadHandle} \cup (0..MaxTimers)
  /\ Cardinality(timers) <= MaxTimers
  /\ BagCardinality(statusReqs) <= MaxStatusReqs
  /\ deleteOutcome.outcome \in {"none", "ok", "404", "500", "network", "other"}
  /\ deleteOutcome.toast \in {"none", "success", "error"}
  /\ promptDismissed \in BOOLEAN
====
